---------------------------- MODULE Spec2Model ----------------------------
(***************************************************************************)
(* Buy-vs-rent break-even simulator and its 1D / 2D sensitivity sweeps.    *)
(*                                                                         *)
(*   src/Cost_benefits_buy_VS_rent.py  calculate_monthly_mortgage_payment, *)
(*                                     calculate_buy_vs_rent_with_         *)
(*                                     opportunity_cost                    *)
(*   src/sensitivity_test_1d.py        scan_1D                             *)
(*   src/sensitivity_test_2d.py        run_sensitivity_analysis            *)
(*                                                                         *)
(* Numbers.  The source computes in Python numbers.  The model computes in *)
(* integers and draws its scenarios from values on which every product,    *)
(* power and quotient of the source is a whole number that fits 32 bits:   *)
(* rates are whole multiples (0 = 0%, 1 = 100%, 2 = 200% a year; a         *)
(* mortgage rate of 12 is a monthly rate of 1), and the home price is a    *)
(* multiple of 12*T for every modelled term T and of 2^12 - 1.  On these   *)
(* scenarios integer arithmetic and the source's arithmetic agree exactly  *)
(* (IEEE doubles are exact on integers below 2^53).  Rounding of doubles   *)
(* on other inputs is outside the model.                                   *)
(***************************************************************************)
EXTENDS Integers, Sequences, FiniteSets

\* Python's None (break_even_year = None).
None == -1

\* The literal of range(12), loan_term_years * 12 and annual_rate / 12.
MonthsPerYear == 12

\* The cap of min(property_tax, 10000).
PropertyTaxCap == 10000

\* The literal the sweeps record for a falsy break-even year.
NeverSentinel1D == 31
NeverSentinel2D == 31

(***************************************************************************)
(* Arithmetic helpers                                                      *)
(***************************************************************************)
Max(a, b) == IF a >= b THEN a ELSE b
Min(a, b) == IF a <= b THEN a ELSE b

\* Python's b ** e for a whole exponent e >= 0.
RECURSIVE Pow(_, _)
Pow(b, e) == IF e <= 0 THEN 1 ELSE b * Pow(b, e - 1)

\* Python's a / b on operands whose quotient is whole (b # 0).
Quot(a, b) == IF b > 0 THEN a \div b ELSE (-a) \div (-b)

\* Whether a / b is whole, so that Quot(a, b) is the source's a / b.
Whole(a, b) == b # 0 /\ a % (IF b > 0 THEN b ELSE -b) = 0

(***************************************************************************)
(* calculate_monthly_mortgage_payment                                      *)
(***************************************************************************)
monthly_rate_of(annual_rate) == Quot(annual_rate, MonthsPerYear)

n_payments_of(loan_term_years) == loan_term_years * MonthsPerYear

\* The divisor of the branch taken: n_payments when monthly_rate == 0, else
\* (1 + monthly_rate) ** n_payments - 1, which is 0 exactly when n_payments
\* is 0 (monthly_rate > 0).  A zero divisor raises ZeroDivisionError.
PaymentRaises(loan_amount, annual_rate, loan_term_years) ==
    n_payments_of(loan_term_years) = 0

\* Mutant: the zero-rate branch divides by the term in years, not by n_payments.
payment_zero_rate_by_years(loan_amount, annual_rate, loan_term_years) ==
    LET monthly_rate == monthly_rate_of(annual_rate)
        n_payments   == n_payments_of(loan_term_years)
    IN  IF monthly_rate = 0
        THEN Quot(loan_amount, loan_term_years)
        ELSE IF n_payments > 0
             THEN Quot(loan_amount * (monthly_rate * Pow(1 + monthly_rate, n_payments)),
                       Pow(1 + monthly_rate, n_payments) - 1)
             ELSE Quot(loan_amount * monthly_rate,
                       1 - Pow(1 + monthly_rate, -n_payments))

\* The value returned when nothing is raised.  For n_payments < 0 the power
\* (1 + m) ** n is the fraction 1 / (1 + m) ** (-n); numerator and divisor
\* are both multiplied by (1 + m) ** (-n) to stay in integers:
\*   P * (m * q^n) / (q^n - 1)  =  P * m / (1 - q^(-n)).
calculate_monthly_mortgage_payment(loan_amount, annual_rate, loan_term_years) ==
    LET monthly_rate == monthly_rate_of(annual_rate)
        n_payments   == n_payments_of(loan_term_years)
    IN  IF monthly_rate = 0
        THEN Quot(loan_amount, n_payments)
        ELSE IF n_payments > 0
             THEN Quot(loan_amount * (monthly_rate * Pow(1 + monthly_rate, n_payments)),
                       Pow(1 + monthly_rate, n_payments) - 1)
             ELSE Quot(loan_amount * monthly_rate,
                       1 - Pow(1 + monthly_rate, -n_payments))

(***************************************************************************)
(* calculate_buy_vs_rent_with_opportunity_cost: the values set before the  *)
(* loop (lines 24-38) and one iteration of the loop (lines 43-96).         *)
(***************************************************************************)
down_payment_of(p) == p.home_price * p.down_payment_percent

loan_amount_of(p) == p.home_price - down_payment_of(p)

closing_cost_of(p) == p.home_price * p.closing_cost_percent

investable_funds_of(p) == down_payment_of(p) + closing_cost_of(p)

\* Mutant: the whole payment taken as principal, the interest not deducted.
RECURSIVE Amortize_interest_not_deducted(_, _, _, _)
Amortize_interest_not_deducted(acc, mortgage_rate, monthly_payment, k) ==
    IF k = 0 THEN acc
    ELSE LET interest  == acc.remaining_balance * monthly_rate_of(mortgage_rate)
             principal == monthly_payment
         IN  Amortize_interest_not_deducted(
                 [annual_interest   |-> acc.annual_interest + interest,
                  annual_principal  |-> acc.annual_principal + principal,
                  remaining_balance |-> acc.remaining_balance - principal],
                 mortgage_rate, monthly_payment, k - 1)

\* for _ in range(12): k months of interest / principal / balance updates.
RECURSIVE Amortize(_, _, _, _)
Amortize(acc, mortgage_rate, monthly_payment, k) ==
    IF k = 0 THEN acc
    ELSE LET interest  == acc.remaining_balance * monthly_rate_of(mortgage_rate)
             principal == monthly_payment - interest
         IN  Amortize([annual_interest   |-> acc.annual_interest + interest,
                       annual_principal  |-> acc.annual_principal + principal,
                       remaining_balance |-> acc.remaining_balance - principal],
                      mortgage_rate, monthly_payment, k - 1)

\* Mutant: the difference invested with its sign, max(0, .) lost.
savings_signed(annual_buy_cost, annual_rent) == annual_buy_cost - annual_rent

\* savings = max(0, annual_buy_cost - annual_rent)
savings_of(annual_buy_cost, annual_rent) == Max(0, annual_buy_cost - annual_rent)

\* Mutant: no latch, every crossing year overwrites the break-even year.
NextBreakEven_no_latch(break_even_year, crossed, year) ==
    IF crossed THEN year ELSE break_even_year

\* if break_even_year is None and net_cost_of_buying < (...): break_even_year = year
NextBreakEven(break_even_year, crossed, year) ==
    IF break_even_year = None /\ crossed THEN year ELSE break_even_year

\* One pass of the loop body for loop variable `year`, from the locals `s`
\* (a record of the function's loop-carried locals) under scenario `p`.
\* Returns the locals after the pass and the Year record appended.
YearStep(p, s, year) ==
    LET am == Amortize([annual_interest |-> 0, annual_principal |-> 0,
                        remaining_balance |-> s.remaining_balance],
                       p.mortgage_rate, s.monthly_payment, MonthsPerYear)
        equity_built        == s.equity_built + am.annual_principal
        maintenance         == s.home_value * p.maintenance_rate
        property_tax        == s.home_value * p.property_tax_rate
        itemized_deductions == am.annual_interest + Min(property_tax, PropertyTaxCap)
        deductible_amount   == Max(0, itemized_deductions - p.standard_deduction)
        tax_savings         == deductible_amount * p.marginal_tax_rate
        annual_buy_cost     == MonthsPerYear * s.monthly_payment + maintenance
                                 + property_tax - tax_savings
        cumulative_buy_cost == s.cumulative_buy_cost + annual_buy_cost
        appreciated_value   == s.home_value * Pow(1 + p.home_appreciation_rate, year)
        selling_cost        == appreciated_value * p.selling_cost_percent
        net_cost_of_buying  == cumulative_buy_cost - equity_built
                                 - (appreciated_value - p.home_price) + selling_cost
        annual_rent         == MonthsPerYear * s.rent
        cumulative_rent_cost == s.cumulative_rent_cost + annual_rent
        rent                == s.rent * (1 + p.rent_increase_rate)
        savings             == savings_of(annual_buy_cost, annual_rent)
        investment_balance  == (s.investment_balance + savings)
                                 * (1 + p.investment_return_rate)
        crossed             == net_cost_of_buying < (cumulative_rent_cost - investment_balance)
        break_even_year     == NextBreakEven(s.break_even_year, crossed, year)
    IN  [locals |-> [monthly_payment      |-> s.monthly_payment,
                     home_value           |-> s.home_value,
                     rent                 |-> rent,
                     remaining_balance    |-> am.remaining_balance,
                     cumulative_buy_cost  |-> cumulative_buy_cost,
                     cumulative_rent_cost |-> cumulative_rent_cost,
                     equity_built         |-> equity_built,
                     investment_balance   |-> investment_balance,
                     break_even_year      |-> break_even_year],
         row    |-> [Year                   |-> year,
                     Annual_Interest        |-> am.annual_interest,
                     Annual_Principal       |-> am.annual_principal,
                     Cumulative_Buy_Cost    |-> cumulative_buy_cost,
                     Equity_Built           |-> equity_built,
                     Appreciated_Home_Value |-> appreciated_value,
                     Selling_Cost           |-> selling_cost,
                     Net_Cost_of_Buying     |-> net_cost_of_buying,
                     Annual_Rent            |-> annual_rent,
                     Cumulative_Rent_Cost   |-> cumulative_rent_cost,
                     Investment_Value       |-> investment_balance,
                     Tax_Savings            |-> tax_savings]]

\* The loop-carried locals as lines 26-38 set them.
InitialLocals(p) ==
    [monthly_payment      |-> calculate_monthly_mortgage_payment(
                                  loan_amount_of(p), p.mortgage_rate, p.loan_term_years),
     home_value           |-> p.home_price,
     rent                 |-> p.monthly_rent,
     remaining_balance    |-> loan_amount_of(p),
     cumulative_buy_cost  |-> closing_cost_of(p),
     cumulative_rent_cost |-> 0,
     equity_built         |-> 0,
     investment_balance   |-> investable_funds_of(p),
     break_even_year      |-> None]

\* The locals of a call that holds none (before the first call, or after the
\* call was left by an exception).
NoLocals ==
    [monthly_payment |-> None, home_value |-> None, rent |-> None,
     remaining_balance |-> None, cumulative_buy_cost |-> None,
     cumulative_rent_cost |-> None, equity_built |-> None,
     investment_balance |-> None, break_even_year |-> None]

\* Mutant: range(1, time_horizon_years), the last year lost.
HasNextYear_short(year, time_horizon_years) == year + 1 \in 1..(time_horizon_years - 1)

\* Mutant: the body runs once before the horizon is looked at.
HasNextYear_do_while(year, time_horizon_years) ==
    year = 0 \/ year + 1 \in 1..time_horizon_years

\* for year in range(1, time_horizon_years + 1): whether the loop, having
\* last bound `year` (0 before the first pass), has another pass.
HasNextYear(year, time_horizon_years) == year + 1 \in 1..time_horizon_years

\* Python's truth value of break_even_year (None and 0 are falsy).
Truthy(v) == v # None /\ v # 0

(***************************************************************************)
(* scan_1D and run_sensitivity_analysis: the scenario handed to the        *)
(* simulator and the entry recorded.                                       *)
(***************************************************************************)
\* Mutant: the coupling of home_appreciation_rate lost.
Scan1DParams_uncoupled(base, name, value) == [base EXCEPT ![name] = value]

\* test_params = base_params.copy(); the coupling; test_params[param_name] = value
Scan1DParams(base, name, value) ==
    LET coupled == IF name = "rent_increase_rate"
                   THEN [base EXCEPT !["home_appreciation_rate"] = value]
                   ELSE base
    IN  [coupled EXCEPT ![name] = value]

\* Mutant: the 1D sweep's coupling applied to the 2D sweep's axes too.
Run2DParams_coupled(base, names, v1, v2) ==
    LET c1 == IF names[1] = "rent_increase_rate"
              THEN [base EXCEPT !["home_appreciation_rate"] = v1] ELSE base
        c2 == IF names[2] = "rent_increase_rate"
              THEN [c1 EXCEPT !["home_appreciation_rate"] = v2] ELSE c1
    IN  [[c2 EXCEPT ![names[1]] = v1] EXCEPT ![names[2]] = v2]

\* test_params = base_params.copy(); test_params[key_names[0]] = home_price;
\* test_params[key_names[1]] = mortgage_rate
Run2DParams(base, names, v1, v2) ==
    [[base EXCEPT ![names[1]] = v1] EXCEPT ![names[2]] = v2]

\* Mutant: .copy() lost, test_params is base_params itself.
BaseAfterWrite_aliased(base, written) == written

\* base_params after an iteration wrote into test_params, a copy of it.
BaseAfterWrite(base, written) == base

\* break_even_year if break_even_year else 31
Entry1D(break_even_year) ==
    IF Truthy(break_even_year) THEN break_even_year ELSE NeverSentinel1D

Entry2D(break_even_year) ==
    IF Truthy(break_even_year) THEN break_even_year ELSE NeverSentinel2D

(***************************************************************************)
(* Bounds and input sets                                                   *)
(***************************************************************************)
\* Largest time_horizon_years and loan_term_years drawn.
MaxHorizon == 2
MaxTerm == 2
\* Longest scan_range of scan_1D; longest axis of run_sensitivity_analysis.
MaxRangeLen == 2
MaxAxisLen == 2

\* 2^4 * (2^12 - 1): a multiple of 12*T for T up to 6 and of 2^12 - 1.
HomePrices == {65520}
Rents == {0, 5460, 21840}
MortgageRates == {0, 12}
Terms == (-1)..MaxTerm
Horizons == (-1)..MaxHorizon

\* The remaining rate fields, drawn together.
Profiles ==
    { [property_tax_rate |-> 0, maintenance_rate |-> 0, home_appreciation_rate |-> 0,
       rent_increase_rate |-> 0, marginal_tax_rate |-> 0, standard_deduction |-> 29200,
       closing_cost_percent |-> 0, selling_cost_percent |-> 0, investment_return_rate |-> 0],
      [property_tax_rate |-> 1, maintenance_rate |-> 0, home_appreciation_rate |-> 1,
       rent_increase_rate |-> 0, marginal_tax_rate |-> 1, standard_deduction |-> 0,
       closing_cost_percent |-> 1, selling_cost_percent |-> 0, investment_return_rate |-> 2],
      [property_tax_rate |-> 0, maintenance_rate |-> 0, home_appreciation_rate |-> 0,
       rent_increase_rate |-> 0, marginal_tax_rate |-> 0, standard_deduction |-> 0,
       closing_cost_percent |-> 0, selling_cost_percent |-> 0, investment_return_rate |-> 2],
      [property_tax_rate |-> 1, maintenance_rate |-> 1, home_appreciation_rate |-> 0,
       rent_increase_rate |-> 1, marginal_tax_rate |-> 1, standard_deduction |-> 29200,
       closing_cost_percent |-> 0, selling_cost_percent |-> 1, investment_return_rate |-> 1] }

Scenario(hp, dp, mr, T, H, mrent, prof) ==
    [home_price |-> hp, down_payment_percent |-> dp, mortgage_rate |-> mr,
     loan_term_years |-> T, property_tax_rate |-> prof.property_tax_rate,
     maintenance_rate |-> prof.maintenance_rate,
     home_appreciation_rate |-> prof.home_appreciation_rate,
     monthly_rent |-> mrent, rent_increase_rate |-> prof.rent_increase_rate,
     household_income |-> 150000, marginal_tax_rate |-> prof.marginal_tax_rate,
     standard_deduction |-> prof.standard_deduction, time_horizon_years |-> H,
     closing_cost_percent |-> prof.closing_cost_percent,
     selling_cost_percent |-> prof.selling_cost_percent,
     investment_return_rate |-> prof.investment_return_rate]

\* The scenarios on which the model's integers are the source's numbers: the
\* payment is whole, and with a monthly rate of 1 the balance (which doubles
\* every month once the loan is over- or under-paid) stays within 32 bits.
Representable(p) ==
    /\ Whole(p.mortgage_rate, MonthsPerYear)
    /\ \/ PaymentRaises(loan_amount_of(p), p.mortgage_rate, p.loan_term_years)
       \/ /\ p.mortgage_rate = 0
          /\ Whole(loan_amount_of(p), n_payments_of(p.loan_term_years))
       \/ /\ p.mortgage_rate = 12
          /\ \/ p.loan_term_years = 1 /\ p.time_horizon_years <= 2
             \/ p.loan_term_years = -1 /\ p.time_horizon_years <= 1
          /\ Whole(loan_amount_of(p), Pow(2, 12) - 1)

Scenarios ==
    { p \in { Scenario(hp, dp, mr, T, H, mrent, prof) :
                hp \in HomePrices, dp \in {0, 1}, mr \in MortgageRates,
                T \in Terms, H \in Horizons, mrent \in Rents, prof \in Profiles } :
        Representable(p) }

\* Base scenarios of the sweeps.
SweepBases ==
    { p \in Scenarios : /\ p.down_payment_percent = 0
                        /\ p.loan_term_years >= 1
                        /\ p.time_horizon_years >= 1 }

\* Base scenarios of the 2D sweep (its cells multiply the runs).
SweepBases2D ==
    { p \in SweepBases : p.loan_term_years = 1 /\ p.monthly_rent = 5460 }

\* The parameters scan_1D sweeps here and the values each takes.
Params1D == {"rent_increase_rate", "monthly_rent", "loan_term_years", "investment_return_rate"}

ValuesOf(name) ==
    CASE name = "rent_increase_rate"     -> {0, 1}
      [] name = "home_appreciation_rate" -> {0, 1}
      [] name = "monthly_rent"           -> {5460, 21840}
      [] name = "loan_term_years"        -> {0, 1}
      [] name = "investment_return_rate" -> {0, 2}
      [] name = "home_price"             -> {65520, 131040}
      [] name = "mortgage_rate"          -> {0, 12}

\* The key_names run_sensitivity_analysis is called with (the first is its default).
KeyNames2D == { <<"home_price", "mortgage_rate">>,
                <<"rent_increase_rate", "monthly_rent">> }

SeqsUpTo(S, n) == UNION { [1..k -> S] : k \in 0..n }

VARIABLES
    mode,          \* the entry point called: "direct", "scan_1D", "run_sensitivity_analysis"
    pc,            \* where the entry point is
    base_params,   \* params / base_params
    param_name,    \* scan_1D
    scan_range,    \* scan_1D
    key_names,     \* run_sensitivity_analysis
    price_range,   \* run_sensitivity_analysis
    rate_range,    \* run_sensitivity_analysis
    i, j,          \* positions of the sweep loops in their ranges
    row,           \* run_sensitivity_analysis
    heatmap_data,  \* scan_1D, run_sensitivity_analysis
    test_params,   \* the scenario of the simulator call in progress
    sim_pc,        \* the simulator call: "idle", "loop", "returned", "raised"
    exception,     \* the exception raised, or "none"
    year,          \* loop variable of the simulator (0 before the first pass)
    locals,        \* loop-carried locals of the simulator call
    summary,       \* summary
    runs,          \* history: scenario and result of every simulator call that returned
    given_params   \* history: base_params as the caller passed it

vars == <<mode, pc, base_params, param_name, scan_range, key_names, price_range,
          rate_range, i, j, row, heatmap_data, test_params, sim_pc, exception,
          year, locals, summary, runs, given_params>>

driver_inputs == <<mode, param_name, scan_range, key_names, price_range, rate_range,
                   given_params>>

InitCommon ==
    /\ pc = "start"
    /\ i = 1 /\ j = 1 /\ row = <<>> /\ heatmap_data = <<>>
    /\ test_params = base_params
    /\ given_params = base_params
    /\ sim_pc = "idle" /\ exception = "none" /\ year = 0
    /\ locals = NoLocals /\ summary = <<>> /\ runs = <<>>

InitDirect ==
    /\ mode = "direct"
    /\ base_params \in Scenarios
    /\ param_name = "" /\ scan_range = <<>>
    /\ key_names = <<>> /\ price_range = <<>> /\ rate_range = <<>>

InitScan1D ==
    /\ mode = "scan_1D"
    /\ base_params \in SweepBases
    /\ param_name \in Params1D
    /\ scan_range \in SeqsUpTo(ValuesOf(param_name), MaxRangeLen)
    /\ \A k \in 1..Len(scan_range) :
          Representable(Scan1DParams(base_params, param_name, scan_range[k]))
    /\ key_names = <<>> /\ price_range = <<>> /\ rate_range = <<>>

InitRun2D ==
    /\ mode = "run_sensitivity_analysis"
    /\ base_params \in SweepBases2D
    /\ key_names \in KeyNames2D
    /\ price_range \in SeqsUpTo(ValuesOf(key_names[1]), MaxAxisLen)
    /\ rate_range \in SeqsUpTo(ValuesOf(key_names[2]), MaxAxisLen)
    /\ \A a \in 1..Len(price_range), b \in 1..Len(rate_range) :
          Representable(Run2DParams(base_params, key_names, price_range[a], rate_range[b]))
    /\ param_name = "" /\ scan_range = <<>>

Init == (InitDirect \/ InitScan1D \/ InitRun2D) /\ InitCommon

(***************************************************************************)
(* The simulator call                                                      *)
(***************************************************************************)
\* Lines 24-40 for scenario p: the payment is computed first and may raise;
\* otherwise the locals are set and the loop is entered.
Enter(p) ==
    /\ test_params' = p
    /\ year' = 0
    /\ summary' = <<>>
    /\ IF PaymentRaises(loan_amount_of(p), p.mortgage_rate, p.loan_term_years)
       THEN /\ sim_pc' = "raised"
            /\ exception' = "ZeroDivisionError"
            /\ locals' = NoLocals
            /\ pc' = "raised"
       ELSE /\ sim_pc' = "loop"
            /\ exception' = "none"
            /\ locals' = InitialLocals(p)
            /\ pc' = "sim"

\* One pass of the loop, lines 42-96.
SimYear ==
    /\ sim_pc = "loop"
    /\ HasNextYear(year, test_params.time_horizon_years)
    /\ LET r == YearStep(test_params, locals, year + 1)
       IN  /\ locals' = r.locals
           /\ summary' = Append(summary, r.row)
    /\ year' = year + 1
    /\ UNCHANGED <<driver_inputs, pc, base_params, i, j, row, heatmap_data,
                   test_params, sim_pc, exception, runs>>

\* Line 98: the loop is over and the call returns (summary, break_even_year).
Returns ==
    /\ pc = "sim"
    /\ sim_pc = "loop"
    /\ ~HasNextYear(year, test_params.time_horizon_years)
    /\ sim_pc' = "returned"
    /\ runs' = Append(runs, [params |-> test_params, summary |-> summary,
                             break_even_year |-> locals.break_even_year])
    /\ UNCHANGED <<test_params, exception, year, locals, summary>>

(***************************************************************************)
(* The direct call (the script's __main__, line 140)                       *)
(***************************************************************************)
Call ==
    /\ mode = "direct" /\ pc = "start"
    /\ Enter(base_params)
    /\ UNCHANGED <<driver_inputs, base_params, i, j, row, heatmap_data, runs>>

CallReturn ==
    /\ mode = "direct"
    /\ Returns
    /\ pc' = "done"
    /\ UNCHANGED <<driver_inputs, base_params, i, j, row, heatmap_data>>

(***************************************************************************)
(* scan_1D                                                                 *)
(***************************************************************************)
Scan1DStart ==
    /\ mode = "scan_1D" /\ pc = "start"
    /\ heatmap_data' = <<>>
    /\ i' = 1
    /\ pc' = "loop"
    /\ UNCHANGED <<driver_inputs, base_params, j, row, test_params, sim_pc,
                   exception, year, locals, summary, runs>>

\* Lines 9-14: the next value, the copy, the writes, the call.
Scan1DIter ==
    /\ mode = "scan_1D" /\ pc = "loop"
    /\ i <= Len(scan_range)
    /\ LET p == Scan1DParams(base_params, param_name, scan_range[i])
       IN  /\ Enter(p)
           /\ base_params' = BaseAfterWrite(base_params, p)
    /\ UNCHANGED <<driver_inputs, i, j, row, heatmap_data, runs>>

\* Lines 14-15: the call returns and its entry is appended.
Scan1DAppend ==
    /\ mode = "scan_1D"
    /\ Returns
    /\ heatmap_data' = Append(heatmap_data, Entry1D(locals.break_even_year))
    /\ i' = i + 1
    /\ pc' = "loop"
    /\ UNCHANGED <<driver_inputs, base_params, j, row>>

\* Line 16.
Scan1DReturn ==
    /\ mode = "scan_1D" /\ pc = "loop"
    /\ i > Len(scan_range)
    /\ pc' = "done"
    /\ UNCHANGED <<driver_inputs, base_params, i, j, row, heatmap_data, test_params,
                   sim_pc, exception, year, locals, summary, runs>>

(***************************************************************************)
(* run_sensitivity_analysis                                                *)
(***************************************************************************)
Run2DStart ==
    /\ mode = "run_sensitivity_analysis" /\ pc = "start"
    /\ heatmap_data' = <<>>
    /\ i' = 1
    /\ pc' = "outer"
    /\ UNCHANGED <<driver_inputs, base_params, j, row, test_params, sim_pc,
                   exception, year, locals, summary, runs>>

\* Lines 10-11: the next value of the outer loop and a fresh row.
Run2DRowStart ==
    /\ mode = "run_sensitivity_analysis" /\ pc = "outer"
    /\ i <= Len(price_range)
    /\ row' = <<>>
    /\ j' = 1
    /\ pc' = "inner"
    /\ UNCHANGED <<driver_inputs, base_params, i, heatmap_data, test_params, sim_pc,
                   exception, year, locals, summary, runs>>

\* Lines 12-16: the next value of the inner loop, the copy, the writes, the call.
Run2DIter ==
    /\ mode = "run_sensitivity_analysis" /\ pc = "inner"
    /\ j <= Len(rate_range)
    /\ LET p == Run2DParams(base_params, key_names, price_range[i], rate_range[j])
       IN  /\ Enter(p)
           /\ base_params' = BaseAfterWrite(base_params, p)
    /\ UNCHANGED <<driver_inputs, i, j, row, heatmap_data, runs>>

\* Lines 16-17.
Run2DAppend ==
    /\ mode = "run_sensitivity_analysis"
    /\ Returns
    /\ row' = Append(row, Entry2D(locals.break_even_year))
    /\ j' = j + 1
    /\ pc' = "inner"
    /\ UNCHANGED <<driver_inputs, base_params, i, heatmap_data>>

\* Line 18.
Run2DRowEnd ==
    /\ mode = "run_sensitivity_analysis" /\ pc = "inner"
    /\ j > Len(rate_range)
    /\ heatmap_data' = Append(heatmap_data, row)
    /\ i' = i + 1
    /\ pc' = "outer"
    /\ UNCHANGED <<driver_inputs, base_params, j, row, test_params, sim_pc,
                   exception, year, locals, summary, runs>>

\* Line 20.
Run2DReturn ==
    /\ mode = "run_sensitivity_analysis" /\ pc = "outer"
    /\ i > Len(price_range)
    /\ pc' = "done"
    /\ UNCHANGED <<driver_inputs, base_params, i, j, row, heatmap_data, test_params,
                   sim_pc, exception, year, locals, summary, runs>>

Next ==
    \/ Call \/ SimYear \/ CallReturn
    \/ Scan1DStart \/ Scan1DIter \/ Scan1DAppend \/ Scan1DReturn
    \/ Run2DStart \/ Run2DRowStart \/ Run2DIter \/ Run2DAppend
    \/ Run2DRowEnd \/ Run2DReturn

Spec == Init /\ [][Next]_vars


(***************************************************************************)
(* The simulator as a function: a call on scenario p that starts from      *)
(* nothing but p.  FreshRun(p) is <<summary, break_even_year>>.            *)
(***************************************************************************)
RECURSIVE FreshLoop(_, _, _, _)
FreshLoop(p, s, y, acc) ==
    IF HasNextYear(y, p.time_horizon_years)
    THEN LET r == YearStep(p, s, y + 1)
         IN  FreshLoop(p, r.locals, y + 1, Append(acc, r.row))
    ELSE <<acc, s.break_even_year>>

FreshRun(p) == FreshLoop(p, InitialLocals(p), 0, <<>>)

(***************************************************************************)
(* Properties                                                              *)
(***************************************************************************)
InCall == sim_pc \in {"loop", "returned"}

\* C1: for a scenario with time_horizon_years = H >= 1 and loan term > 0 the
\* call emits exactly H Year records, one per pass of the loop, and their
\* Year fields are 1, 2, ..., H in order (no gap, no duplicate): while the
\* call runs the records so far are numbered 1..year, and at the return
\* there are H of them.
C1_YearRecords ==
    /\ InCall => /\ Len(summary) = year
                 /\ \A k \in 1..Len(summary) : summary[k].Year = k
    /\ ( /\ sim_pc = "returned"
         /\ test_params.time_horizon_years >= 1
         /\ test_params.loan_term_years > 0 )
       => Len(summary) = test_params.time_horizon_years

C1_Witness ==
    /\ sim_pc = "returned"
    /\ test_params.loan_term_years > 0
    /\ test_params.time_horizon_years = 2
    /\ Len(summary) = 2
    /\ summary[1].Year = 1 /\ summary[2].Year = 2

\* The inequality of the break-even test, read off a Year record.
Crossed(r) == r.Net_Cost_of_Buying < r.Cumulative_Rent_Cost - r.Investment_Value

FirstCrossing(s) ==
    IF \E k \in 1..Len(s) : Crossed(s[k])
    THEN CHOOSE k \in 1..Len(s) :
            Crossed(s[k]) /\ \A m \in 1..(k - 1) : ~Crossed(s[m])
    ELSE None

\* C2: the break-even year is the smallest year y of 1..horizon whose record
\* has net cost of buying < cumulative rent cost - investment value, and None
\* if there is none; once set it is not changed by a later year, also when
\* that later year no longer satisfies the inequality.  Stated at every
\* point of the loop (over the years simulated so far) and at the return.
C2_FirstCrossing ==
    /\ InCall => locals.break_even_year = FirstCrossing(summary)
    /\ \A k \in 1..Len(runs) :
          runs[k].break_even_year = FirstCrossing(runs[k].summary)

\* A year after the break-even year fails the inequality, and the latch holds.
C2_Witness ==
    /\ sim_pc = "returned"
    /\ Len(summary) >= 2
    /\ locals.break_even_year = 1
    /\ ~Crossed(summary[2])

\* The entry the sweep recorded for its k-th simulator call.
EntryOfRun(k) ==
    IF mode = "scan_1D" THEN heatmap_data[k]
    ELSE LET n  == Len(rate_range)
             ri == ((k - 1) \div n) + 1
             ci == ((k - 1) % n) + 1
         IN  IF ri <= Len(heatmap_data) THEN heatmap_data[ri][ci] ELSE row[ci]

InSweep == mode \in {"scan_1D", "run_sensitivity_analysis"}

\* C3 (as claimed): every entry scan_1D and run_sensitivity_analysis record is
\* horizon + 1 exactly when the simulator's break-even year for that
\* combination is None, and the break-even year otherwise, whatever the
\* (positive) horizon.
C3_SentinelIsHorizonPlusOne ==
    InSweep =>
        \A k \in 1..Len(runs) :
            LET be == runs[k].break_even_year
                H  == runs[k].params.time_horizon_years
            IN  /\ (be = None) <=> (EntryOfRun(k) = H + 1)
                /\ (be # None) => EntryOfRun(k) = be

\* The scenario scan_1D is to hand over for the k-th value, field by field.
Expected1D(k) ==
    [f \in DOMAIN base_params |->
        IF f = param_name
           \/ (param_name = "rent_increase_rate" /\ f = "home_appreciation_rate")
        THEN scan_range[k]
        ELSE base_params[f]]

\* C4: in scan_1D the scenario handed to the simulator for the k-th value v
\* is the base scenario with param_name replaced by v, and
\* home_appreciation_rate replaced by v too when param_name is
\* "rent_increase_rate"; every other field is the base's.  The output has one
\* entry per value, in the order of the values.
C4_Scan1DFrame ==
    mode = "scan_1D" =>
        /\ \A k \in 1..Len(runs) :
              /\ runs[k].params = Expected1D(k)
              /\ heatmap_data[k] = Entry1D(runs[k].break_even_year)
        /\ Len(heatmap_data) = Len(runs)
        /\ pc = "sim" => /\ test_params = Expected1D(i)
                         /\ i = Len(runs) + 1
        /\ pc = "done" => Len(heatmap_data) = Len(scan_range)

C4_Witness ==
    /\ mode = "scan_1D" /\ pc = "done"
    /\ param_name = "rent_increase_rate"
    /\ Len(scan_range) = 2 /\ scan_range[1] # scan_range[2]
    /\ Len(heatmap_data) = 2
    /\ runs[1].params.home_appreciation_rate # base_params.home_appreciation_rate
    /\ runs[1].params.rent_increase_rate = runs[1].params.home_appreciation_rate

\* The scenario of cell (a, b): the base with the two named fields replaced.
Expected2D(a, b) ==
    [f \in DOMAIN base_params |->
        IF f = key_names[2] THEN rate_range[b]
        ELSE IF f = key_names[1] THEN price_range[a]
        ELSE base_params[f]]

\* C5: run_sensitivity_analysis returns a matrix of len(range1) rows and
\* len(range2) columns whose cell (a, b) is the break-even year, or the
\* sentinel, of the base scenario with key_names[0] = range1[a] and
\* key_names[1] = range2[b] and no other field changed (no coupling of
\* home_appreciation_rate); the outer loop fills the rows, the inner loop the
\* columns, so the calls come in row-major order.
C5_MatrixCells ==
    mode = "run_sensitivity_analysis" =>
        /\ \A a \in 1..Len(heatmap_data) :
              /\ Len(heatmap_data[a]) = Len(rate_range)
              /\ \A b \in 1..Len(rate_range) :
                    LET r == runs[(a - 1) * Len(rate_range) + b]
                    IN  /\ r.params = Expected2D(a, b)
                        /\ heatmap_data[a][b] = Entry2D(r.break_even_year)
                        /\ r.break_even_year # None
                              => heatmap_data[a][b] = r.break_even_year
        /\ pc = "sim" => test_params = Expected2D(i, j)
        /\ pc = "done" => Len(heatmap_data) = Len(price_range)

C5_Witness ==
    /\ mode = "run_sensitivity_analysis" /\ pc = "done"
    /\ key_names[1] = "rent_increase_rate"
    /\ Len(heatmap_data) = 2 /\ Len(heatmap_data[1]) = 2
    /\ price_range[1] # base_params.home_appreciation_rate
    /\ heatmap_data[1][1] # heatmap_data[1][2]

RECURSIVE SumPrincipal(_)
SumPrincipal(s) ==
    IF s = <<>> THEN 0 ELSE s[Len(s)].Annual_Principal + SumPrincipal(SubSeq(s, 1, Len(s) - 1))

Retired ==
    /\ SumPrincipal(summary) = loan_amount_of(test_params)
    /\ locals.remaining_balance = 0
    /\ summary[Len(summary)].Equity_Built = loan_amount_of(test_params)

\* C6 (as claimed): for any valid scenario (horizon and term positive) the
\* Annual Principal of all Year records sums to the loan amount, the
\* remaining balance is zero after the last year and the last record's
\* Equity Built is the loan amount.
C6_PrincipalSumsToLoan ==
    ( /\ sim_pc = "returned"
      /\ test_params.time_horizon_years >= 1
      /\ test_params.loan_term_years >= 1 )
    => Retired

\* C6 (amended): the same, for the valid scenarios whose time horizon equals
\* the loan term.
C6_PrincipalSumsToLoanWhenTermIsHorizon ==
    ( /\ sim_pc = "returned"
      /\ test_params.time_horizon_years >= 1
      /\ test_params.loan_term_years = test_params.time_horizon_years )
    => Retired

C6_Witness ==
    /\ sim_pc = "returned"
    /\ test_params.mortgage_rate # 0
    /\ test_params.loan_term_years = test_params.time_horizon_years
    /\ test_params.time_horizon_years >= 1
    /\ loan_amount_of(test_params) > 0
    /\ Retired

SameResult(a, b) ==
    /\ runs[a].summary = runs[b].summary
    /\ runs[a].break_even_year = runs[b].break_even_year

RunsAreFresh ==
    \A a \in 1..Len(runs) :
        /\ <<runs[a].summary, runs[a].break_even_year>> = FreshRun(runs[a].params)
        /\ \A b \in 1..Len(runs) : runs[a].params = runs[b].params => SameResult(a, b)

\* C7: the simulator keeps no state between calls: two calls on the same
\* scenario return the same trajectory and break-even year whatever ran in
\* between, and every call returns what a call starting from the scenario
\* alone returns; the sweeps work on a copy, so base_params stays what the
\* caller passed.
C7_NoStateBetweenCalls ==
    /\ base_params = given_params
    /\ RunsAreFresh

\* The same scenario ran twice with another scenario's run in between.
C7_Witness ==
    \E a, b \in 1..Len(runs) :
        /\ a + 1 < b
        /\ runs[a].params = runs[b].params
        /\ runs[a + 1].params # runs[a].params
        /\ runs[a + 1].break_even_year # runs[a].break_even_year
        /\ Len(runs[a].summary) >= 2
        /\ test_params # base_params

\* C8: for annual rate 0 and term T > 0 the payment is exactly P / (12 * T);
\* in the simulator every month's interest is then 0 and its principal the
\* payment (a year's interest is 0, its principal 12 payments), and the
\* balance is 0 after exactly 12 * T payments: 0 after year T, not before.
C8_ZeroRateLinear ==
    ( /\ InCall
      /\ test_params.mortgage_rate = 0
      /\ test_params.loan_term_years > 0 )
    => LET P == loan_amount_of(test_params)
           T == test_params.loan_term_years
           M == locals.monthly_payment
       IN  /\ M * (MonthsPerYear * T) = P
           /\ \A k \in 1..Len(summary) :
                 /\ summary[k].Annual_Interest = 0
                 /\ summary[k].Annual_Principal = MonthsPerYear * M
           /\ locals.remaining_balance = P - (MonthsPerYear * year) * M
           /\ year = T => locals.remaining_balance = 0
           /\ (year < T /\ P > 0) => locals.remaining_balance > 0

C8_Witness ==
    /\ sim_pc = "loop"
    /\ test_params.mortgage_rate = 0
    /\ test_params.loan_term_years = 2
    /\ year = 2
    /\ loan_amount_of(test_params) > 0
    /\ locals.remaining_balance = 0
    /\ summary[1].Annual_Principal * 2 = loan_amount_of(test_params)

\* The two outcomes the claim allows a malformed scenario.
FailsOrEmpty ==
    /\ sim_pc \in {"loop", "returned", "raised"} => summary = <<>>
    /\ sim_pc = "raised" => exception = "ZeroDivisionError"
    /\ sim_pc = "returned" => locals.break_even_year = None
    /\ exception \in {"none", "ZeroDivisionError"}

\* C9 (as claimed): a scenario with a zero or negative horizon or a zero or
\* negative loan term ends either in a division by zero raised while the
\* payment is computed, before any Year record, or in an empty trajectory
\* with a None break-even year; never in a non-empty trajectory, never in an
\* "invalid scenario" error.
C9_MalformedFailsOrEmpty ==
    ( /\ sim_pc # "idle"
      /\ \/ test_params.time_horizon_years <= 0
         \/ test_params.loan_term_years <= 0 )
    => FailsOrEmpty

\* C9 (amended): the same for a zero or negative horizon or a zero loan term;
\* a zero loan term always ends in the division by zero.
C9_ZeroTermOrNoHorizonFailsOrEmpty ==
    ( /\ sim_pc # "idle"
      /\ \/ test_params.time_horizon_years <= 0
         \/ test_params.loan_term_years = 0 )
    => /\ FailsOrEmpty
       /\ test_params.loan_term_years = 0 <=> sim_pc = "raised"

C9_Witness ==
    /\ sim_pc = "returned"
    /\ test_params.time_horizon_years <= 0
    /\ test_params.loan_term_years < 0
    /\ summary = <<>>
    /\ locals.break_even_year = None
    /\ runs # <<>>

\* Investment Value and Cumulative Buy Cost after year k (k = 0: at the start).
InvestmentAfter(k) ==
    IF k = 0 THEN investable_funds_of(test_params) ELSE summary[k].Investment_Value

BuyCostAfter(k) ==
    IF k = 0 THEN closing_cost_of(test_params) ELSE summary[k].Cumulative_Buy_Cost

AddedIn(k) ==
    Max(0, (BuyCostAfter(k) - BuyCostAfter(k - 1)) - summary[k].Annual_Rent)

\* C10: the investment account starts at down payment + closing cost; after
\* year y it is (balance after y-1 + max(0, annual ownership cash cost(y) -
\* annual rent(y))) * (1 + investment return rate); the amount added is never
\* negative, so with a non-negative return rate Investment Value never
\* decreases from a year to the next and is never below the seed.
C10_InvestmentAccount ==
    InCall =>
        /\ locals.investment_balance = InvestmentAfter(Len(summary))
        /\ \A k \in 1..Len(summary) :
              /\ InvestmentAfter(k) = (InvestmentAfter(k - 1) + AddedIn(k))
                                        * (1 + test_params.investment_return_rate)
              /\ AddedIn(k) >= 0
              /\ test_params.investment_return_rate >= 0
                    => /\ InvestmentAfter(k) >= InvestmentAfter(k - 1)
                       /\ InvestmentAfter(k) >= investable_funds_of(test_params)

\* A year whose ownership cost is below its rent (nothing is added) and a
\* year whose ownership cost is above it, on a growing seeded account.
C10_Witness ==
    /\ InCall
    /\ Len(summary) >= 2
    /\ investable_funds_of(test_params) > 0
    /\ test_params.investment_return_rate > 0
    /\ \E k \in 1..Len(summary) :
          (BuyCostAfter(k) - BuyCostAfter(k - 1)) < summary[k].Annual_Rent
    /\ \E k \in 1..Len(summary) : AddedIn(k) > 0

=============================================================================
